---------------------------- MODULE Spec2Model ----------------------------
(***************************************************************************)
(* A model of GopherAI's user DAO (dao/user/user.go) and of its RAG glue   *)
(* (package rag: NewRAGIndexer, IndexFile, DeleteIndex, NewRAGQuery,       *)
(* RetrieveDocuments, BuildRAGPrompt).                                     *)
(*                                                                         *)
(* A Go string is a sequence of symbols: user-supplied text is a sequence  *)
(* of one-character strings, and each string literal of the source is one  *)
(* symbol of its own (the literals are not ASCII; each is named after the  *)
(* source line that holds it).  fmt.Sprintf is concatenation (\o).         *)
(***************************************************************************)
EXTENDS Naturals, Sequences, FiniteSets

VARIABLES
    users,        \* the rows of the users table, in insertion order
    registered,   \* history: the arguments of every successful Register
    userRet,      \* the last call into the user DAO and what it returned
    redisIndexes, \* the vector indexes that exist in the store
    redisHashes,  \* the hashes of the store: key -> field values
    ragIndexer,   \* the RAGIndexer most recently built (Nil: none)
    ragQuery,     \* the RAGQuery most recently built (Nil: none)
    lastIndexed,  \* history: per knowledge base, the last content stored
    ragRet,       \* the last call into package rag and what it returned
    promptIn,     \* BuildRAGPrompt's arguments (query, docs)
    promptOut,    \* BuildRAGPrompt's result
    mapIn,        \* DocumentToHashes' closure variable and argument
    mapOut        \* DocumentToHashes' result

vars == <<users, registered, userRet, redisIndexes, redisHashes,
          ragIndexer, ragQuery, lastIndexed, ragRet, promptIn, promptOut,
          mapIn, mapOut>>

userVars == <<users, registered, userRet>>
ragVars == <<redisIndexes, redisHashes, ragIndexer, ragQuery,
             lastIndexed, ragRet>>
promptVars == <<promptIn, promptOut>>
mapVars == <<mapIn, mapOut>>

\* A nil pointer, a nil error, a nil slice.
Nil == <<>>
NoCall == [op |-> "none"]

(***************************************************************************)
(* Bounds of the model.                                                    *)
(***************************************************************************)
MaxUsers == 3
MaxDocs == 2
MaxLen == 2

(***************************************************************************)
(*                       dao/user/user.go                                  *)
(***************************************************************************)

\* Register takes any two strings: a username may look like an address.
LoginNames == {"amy", "amy@x.io"}
Emails == {"amy@x.io", "bob@x.io"}
Idents == LoginNames \cup Emails
Passwords == {"pw1"}

\* Errors are records; fmt.Errorf("...: %w", err) keeps err as the cause.
ErrRecordNotFound == [error |-> "record not found"]
ErrDB == [error |-> "database unreachable"]

\* utils.MD5: a digest of the password, never the password itself.
MD5(password) == <<"md5", password>>

\* mysql.InsertUser: appends the row, the store assigning the next ID.
InsertUser(tbl, row) == Append(tbl, [row EXCEPT !.ID = Len(tbl) + 1])

\* The first row (lowest ID) that satisfies a predicate on one column.
FirstRow(tbl, col, val) ==
    LET hits == {i \in DOMAIN tbl : tbl[i][col] = val}
    IN  IF hits = {} THEN Nil
        ELSE tbl[CHOOSE i \in hits : \A j \in hits : i <= j]

\* mysql.GetUserByUsername / GetUserByEmail: (row, nil), or (nil, not-found),
\* or (nil, another error) when the database fails.
GetUserBy(tbl, col, val, dbFails) ==
    IF dbFails THEN [u |-> Nil, err |-> ErrDB]
    ELSE IF FirstRow(tbl, col, val) = Nil
         THEN [u |-> Nil, err |-> ErrRecordNotFound]
         ELSE [u |-> FirstRow(tbl, col, val), err |-> Nil]

GetUserByUsername(tbl, username, dbFails) ==
    GetUserBy(tbl, "Username", username, dbFails)

GetUserByEmail(tbl, email, dbFails) ==
    GetUserBy(tbl, "Email", email, dbFails)

\* A mutant of IsExistUser: reports found after the e-mail lookup whenever it
\* did not fail with a real error, also when it found nothing.
IsExistUserFoundOnMiss(tbl, username, fail1, fail2) ==
    LET r1 == GetUserByUsername(tbl, username, fail1)
        r2 == GetUserByEmail(tbl, username, fail2)
    IN  IF r1.err = Nil /\ r1.u # Nil THEN [found |-> TRUE, u |-> r1.u]
        ELSE IF r1.err # Nil /\ r1.err # ErrRecordNotFound
             THEN [found |-> FALSE, u |-> Nil]
        ELSE IF r2.err # Nil /\ r2.err # ErrRecordNotFound
             THEN [found |-> FALSE, u |-> Nil]
        ELSE [found |-> TRUE, u |-> r2.u]

\* IsExistUser(username): by username first, then by e-mail.
IsExistUser(tbl, username, fail1, fail2) ==
    LET r1 == GetUserByUsername(tbl, username, fail1)
        r2 == GetUserByEmail(tbl, username, fail2)
    IN  IF r1.err = Nil /\ r1.u # Nil THEN [found |-> TRUE, u |-> r1.u]
        ELSE IF r1.err # Nil /\ r1.err # ErrRecordNotFound
             THEN [found |-> FALSE, u |-> Nil]
        ELSE IF r2.err = Nil /\ r2.u # Nil THEN [found |-> TRUE, u |-> r2.u]
        ELSE IF r2.err # Nil /\ r2.err # ErrRecordNotFound
             THEN [found |-> FALSE, u |-> Nil]
        ELSE [found |-> FALSE, u |-> Nil]

\* A mutant of RegisterRow: Username and Email exchanged.
RegisterRowSwapped(username, email, password) ==
    [ID |-> 0, Email |-> username, Name |-> username, Username |-> email,
     Password |-> MD5(password)]

\* The model.User that Register hands to InsertUser.
RegisterRow(username, email, password) ==
    [ID |-> 0, Email |-> email, Name |-> username, Username |-> username,
     Password |-> MD5(password)]

\* Register(username, email, password): (user, true), or (nil, false) when
\* the insert fails.
Register(username, email, password, insertFails) ==
    /\ Len(users) < MaxUsers
    /\ IF insertFails
       THEN /\ userRet' = [op |-> "Register", arg |-> username, u |-> Nil,
                           ok |-> FALSE]
            /\ UNCHANGED <<users, registered>>
       ELSE LET tbl == InsertUser(users, RegisterRow(username, email, password))
            IN  /\ users' = tbl
                /\ registered' = Append(registered,
                                   [username |-> username, email |-> email,
                                    password |-> password])
                /\ userRet' = [op |-> "Register", arg |-> username,
                               u |-> tbl[Len(tbl)], ok |-> TRUE]
    /\ UNCHANGED <<ragVars, promptVars, mapVars>>

\* A call of IsExistUser, each of its two lookups failing or not.
IsExistUserCall(username, fail1, fail2) ==
    LET r == IsExistUser(users, username, fail1, fail2)
    IN  /\ userRet' = [op |-> "IsExistUser", arg |-> username,
                       found |-> r.found, u |-> r.u,
                       dbFailed |-> fail1 \/ fail2]
        /\ UNCHANGED <<users, registered, ragVars, promptVars, mapVars>>


RegisterStep ==
    \E username \in LoginNames, email \in Emails, password \in Passwords,
       insertFails \in BOOLEAN :
        Register(username, email, password, insertFails)

IsExistUserStep ==
    \E username \in Idents, fail1 \in BOOLEAN, fail2 \in BOOLEAN :
        IsExistUserCall(username, fail1, fail2)

(***************************************************************************)
(* Claims about the user DAO.                                              *)
(***************************************************************************)

\* The rows other than row i that carry val in column col.
OtherRows(i, col, val) ==
    {j \in DOMAIN users : j # i /\ users[j][col] = val}

LookupAnswered == userRet.op = "IsExistUser" /\ ~userRet.dbFailed

\* C1 (as amended): for every successful Register(username, email, _), a
\* later IsExistUser whose lookups do not fail returns found = true for the
\* username and for the e-mail; the user returned is the row that Register
\* stored (Username = username, Email = email) when no other row carries the
\* looked-up string as its Username or, for the e-mail, as its Email;
\* otherwise it is still a row whose Username or Email is that string.
C1_RegisteredUserIsFound ==
    \A i \in DOMAIN registered :
        LET c == registered[i]
            r == users[i]
        IN  LookupAnswered =>
              /\ (userRet.arg = c.username
                  /\ OtherRows(i, "Username", c.username) = {})
                 => /\ userRet.found
                    /\ userRet.u = r
                    /\ r.Username = c.username
                    /\ r.Email = c.email
              /\ userRet.arg = c.email
                 => /\ userRet.found
                    /\ userRet.u # Nil
                    /\ \/ userRet.u.Username = c.email
                       \/ userRet.u.Email = c.email
              /\ (userRet.arg = c.email
                  /\ OtherRows(i, "Username", c.email) = {}
                  /\ OtherRows(i, "Email", c.email) = {})
                 => /\ userRet.u = r
                    /\ r.Email = c.email
                    /\ r.Username = c.username

\* C1 witness: two users are registered and the first is looked up, and
\* found, by an e-mail that differs from its username.
C1_Witness ==
    /\ LookupAnswered
    /\ Len(registered) >= 2
    /\ registered[1].email # registered[1].username
    /\ userRet.arg = registered[1].email
    /\ userRet.found
    /\ userRet.u = users[1]

\* Every registered user has a username and an e-mail of its own.
DistinctUsers ==
    \A i, j \in DOMAIN registered :
        i # j => /\ registered[i].username # registered[j].username
                 /\ registered[i].email # registered[j].email

\* C1 as stated: with every Register being for another user, IsExistUser of
\* a registered username and of a registered e-mail both return (true, u)
\* with u the row stored by that Register.
C1_Original ==
    \A i \in DOMAIN registered :
        (/\ LookupAnswered
         /\ DistinctUsers
         /\ userRet.arg \in {registered[i].username, registered[i].email})
        => userRet.found /\ userRet.u = users[i]

\* C7: IsExistUser returns found = true exactly when it returns a user, and
\* returns (false, nil) when no row has the argument as Username or Email.
C7_NotFoundIsFalseNil ==
    userRet.op = "IsExistUser" =>
        /\ userRet.found <=> userRet.u # Nil
        /\ (\A i \in DOMAIN users : /\ users[i].Username # userRet.arg
                                    /\ users[i].Email # userRet.arg)
           => ~userRet.found /\ userRet.u = Nil

\* C7 witness: a lookup that the database answers finds no row among the
\* registered ones and returns (false, nil).
C7_Witness ==
    /\ LookupAnswered
    /\ users # <<>>
    /\ \A i \in DOMAIN users : /\ users[i].Username # userRet.arg
                               /\ users[i].Email # userRet.arg
    /\ ~userRet.found
    /\ userRet.u = Nil


(***************************************************************************)
(*                 package rag: the collaborators                          *)
(***************************************************************************)

RagDimension == 2
TopK == 5
BatchSize == 10

\* The characters of document and query text.
Alphabet == <<"a", "b">>

\* The knowledge-base (file) names, in the order os.ReadDir lists them.
DirNames == << <<"a.txt">>, <<"b.txt">> >>
FileNames == {DirNames[i] : i \in DOMAIN DirNames}
Usernames == {<<"amy">>, <<"bob">>}
Contents == {<<"a">>, <<"b", "b">>}
Queries == {<<"a">>, <<"b", "b">>}
EmbeddingModels == {<<"embedding-model">>}

\* The paths IndexFile is given.
FilePaths == {<<"uploads/">> \o <<"amy">> \o <<"/">> \o f : f \in FileNames}

ErrStore == [error |-> "store unreachable"]
ErrUnknownIndex == [error |-> "unknown index name"]
ErrEmbedder == [error |-> "embedder configuration rejected"]
ErrIndexerConfig == [error |-> "indexer configuration rejected"]
ErrRetrieverConfig == [error |-> "retriever configuration rejected"]
ErrNoFile == [error |-> "no such file or directory"]

\* fmt.Errorf(msg + ": %w", err).
Errorf(msg, err) == [error |-> msg, cause |-> err]

IsPrefix(p, s) == Len(p) <= Len(s) /\ SubSeq(s, 1, Len(p)) = p

\* How often character c occurs in text.
CountChar(c, text) == Cardinality({i \in DOMAIN text : text[i] = c})

\* The Embedding Provider: text to a vector of RagDimension numbers (here
\* the number of occurrences of each character of the alphabet).
Embed(text) ==
    [i \in 1..RagDimension |->
        IF i <= Len(Alphabet) THEN CountChar(Alphabet[i], text) ELSE 0]

RECURSIVE SumSq(_, _, _)
SumSq(v, w, n) ==
    IF n = 0 THEN 0
    ELSE SumSq(v, w, n - 1)
         + (IF v[n] >= w[n] THEN v[n] - w[n] ELSE w[n] - v[n])
           * (IF v[n] >= w[n] THEN v[n] - w[n] ELSE w[n] - v[n])

\* The store's distance between two vectors.
Distance(v, w) == SumSq(v, w, Len(v))

\* redis.GenerateIndexName / GenerateIndexNamePrefix: both derived from the
\* knowledge-base name.
GenerateIndexName(filename) == <<"rag_docs:">> \o filename \o <<":idx">>

GenerateIndexNamePrefix(filename) == <<"rag_docs:">> \o filename \o <<":">>

\* redis.InitRedisIndex: creates the index over the hashes under the
\* knowledge base's prefix, unless it exists already.
InitRedisIndex(indexes, filename, dimension) ==
    IF \E x \in indexes : x.name = GenerateIndexName(filename)
    THEN indexes
    ELSE indexes \cup {[name |-> GenerateIndexName(filename),
                        prefix |-> GenerateIndexNamePrefix(filename),
                        dim |-> dimension]}

IndexExists(indexes, name) == \E x \in indexes : x.name = name

\* The hashes an index covers.
Covered(indexes, hashes, name) ==
    {h \in hashes : \E x \in indexes : x.name = name /\ IsPrefix(x.prefix, h.key)}

\* The records a knowledge base holds: the hashes under its prefix.
Records(hashes, filename) ==
    {h \in hashes : IsPrefix(GenerateIndexNamePrefix(filename), h.key)}

\* redis.DeleteRedisIndex: the store's error when it is unreachable or does
\* not know the index.
DeleteRedisIndexErr(indexes, filename, storeDown) ==
    IF storeDown THEN ErrStore
    ELSE IF ~IndexExists(indexes, GenerateIndexName(filename))
         THEN ErrUnknownIndex
         ELSE Nil

\* HSET key field value ...: the hash at key becomes the given one.
HSet(hashes, h) == {x \in hashes : x.key # h.key} \cup {h}

\* Hits ordered closest first (the store's native ranking), at most k.
Ranked(hits, vec, k) ==
    LET n == Cardinality(hits)
        order == CHOOSE f \in [1..n -> hits] :
                   /\ \A i, j \in 1..n : i # j => f[i] # f[j]
                   /\ \A i, j \in 1..n :
                        i < j => Distance(f[i].vector, vec)
                                   <= Distance(f[j].vector, vec)
    IN  SubSeq(order, 1, IF n < k THEN n ELSE k)


(***************************************************************************)
(*                 package rag: indexing                                   *)
(***************************************************************************)

\* A mutant of DocumentToHashes: the key is the document id alone.
DocumentToHashesBareKey(filename, doc) ==
    LET source == IF "source" \in DOMAIN doc.MetaData
                     /\ doc.MetaData["source"].type = "string"
                  THEN doc.MetaData["source"].val
                  ELSE <<>>
    IN  [Key |-> doc.ID,
         Field2Value |->
            [content |-> [Value |-> doc.Content, EmbedKey |-> <<"vector">>],
             metadata |-> [Value |-> source, EmbedKey |-> <<>>]]]

\* The DocumentToHashes closure of NewRAGIndexer(filename, _): the source is
\* MetaData["source"] when that is a string, and "" otherwise.
DocumentToHashes(filename, doc) ==
    LET source == IF "source" \in DOMAIN doc.MetaData
                     /\ doc.MetaData["source"].type = "string"
                  THEN doc.MetaData["source"].val
                  ELSE <<>>
    IN  [Key |-> filename \o <<":">> \o doc.ID,
         Field2Value |->
            [content |-> [Value |-> doc.Content, EmbedKey |-> <<"vector">>],
             metadata |-> [Value |-> source, EmbedKey |-> <<>>]]]

\* What the indexer writes for one document: the hash at KeyPrefix + Key,
\* each field's value, and the embedding of the field that names an EmbedKey.
StoredHash(indexer, doc) ==
    LET h == DocumentToHashes(indexer.filename, doc)
    IN  [key |-> indexer.KeyPrefix \o h.Key,
         content |-> h.Field2Value.content.Value,
         metadata |-> h.Field2Value.metadata.Value,
         vector |-> Embed(h.Field2Value.content.Value)]

\* The stages of NewRAGIndexer, in the order it runs them.
IndexerStages == <<"embedder", "redis index", "indexer">>

\* A mutant of NewRAGIndexerResult: the function does not return when the
\* embedder cannot be created, and goes on with the later stages.
NewRAGIndexerResultGoesOn(filename, embeddingModel, failAt) ==
    IF failAt = "redis index"
    THEN [ran |-> SubSeq(IndexerStages, 1, 2), indexer |-> Nil,
          err |-> Errorf("failed to init redis index", ErrStore),
          indexes |-> redisIndexes]
    ELSE IF failAt = "indexer"
    THEN [ran |-> IndexerStages, indexer |-> Nil,
          err |-> Errorf("failed to create indexer", ErrIndexerConfig),
          indexes |-> InitRedisIndex(redisIndexes, filename, RagDimension)]
    ELSE [ran |-> IndexerStages,
          indexer |-> [embedding |-> embeddingModel, filename |-> filename,
                       KeyPrefix |-> GenerateIndexNamePrefix(filename),
                       BatchSize |-> BatchSize],
          err |-> Nil,
          indexes |-> InitRedisIndex(redisIndexes, filename, RagDimension)]

\* NewRAGIndexer's three stages in order, failAt being the first stage that
\* fails ("none": no stage does): the stages that ran, the indexer and the
\* error returned, and the store's indexes afterwards.
NewRAGIndexerResult(filename, embeddingModel, failAt) ==
    IF failAt = "embedder"
    THEN [ran |-> SubSeq(IndexerStages, 1, 1), indexer |-> Nil,
          err |-> Errorf("failed to create embedder", ErrEmbedder),
          indexes |-> redisIndexes]
    ELSE IF failAt = "redis index"
    THEN [ran |-> SubSeq(IndexerStages, 1, 2), indexer |-> Nil,
          err |-> Errorf("failed to init redis index", ErrStore),
          indexes |-> redisIndexes]
    ELSE IF failAt = "indexer"
    THEN [ran |-> IndexerStages, indexer |-> Nil,
          err |-> Errorf("failed to create indexer", ErrIndexerConfig),
          indexes |-> InitRedisIndex(redisIndexes, filename, RagDimension)]
    ELSE [ran |-> IndexerStages,
          indexer |-> [embedding |-> embeddingModel, filename |-> filename,
                       KeyPrefix |-> GenerateIndexNamePrefix(filename),
                       BatchSize |-> BatchSize],
          err |-> Nil,
          indexes |-> InitRedisIndex(redisIndexes, filename, RagDimension)]

\* NewRAGIndexer(filename, embeddingModel).
NewRAGIndexer(filename, embeddingModel, failAt) ==
    LET r == NewRAGIndexerResult(filename, embeddingModel, failAt)
    IN  /\ redisIndexes' = r.indexes
        /\ ragIndexer' = IF r.err = Nil THEN r.indexer ELSE ragIndexer
        /\ ragRet' = [op |-> "NewRAGIndexer", arg |-> filename,
                      ret |-> r.indexer, err |-> r.err, ran |-> r.ran,
                      failAt |-> failAt]
        /\ UNCHANGED <<redisHashes, ragQuery, lastIndexed,
                       userVars, promptVars, mapVars>>

\* A mutant of IndexFileDocument: the document id is the file's path.
IndexFileDocumentPathId(filePath, content) ==
    [ID |-> filePath, Content |-> content,
     MetaData |-> [k \in {"source"} |-> [type |-> "string", val |-> filePath]]]

\* The one document IndexFile makes of a file: the id is a fixed placeholder.
IndexFileDocument(filePath, content) ==
    [ID |-> <<"doc_1">>, Content |-> content,
     MetaData |-> [k \in {"source"} |-> [type |-> "string", val |-> filePath]]]

\* IndexFile on what os.ReadFile returned: the error returned, the number of
\* calls of the indexer's Store, and the store's hashes afterwards.
IndexFileResult(filePath, file, storeFails) ==
    IF file.err # Nil
    THEN [err |-> Errorf("failed to read file", file.err), stores |-> 0,
          hashes |-> redisHashes]
    ELSE IF storeFails
    THEN [err |-> Errorf("failed to store document", ErrStore), stores |-> 1,
          hashes |-> redisHashes]
    ELSE [err |-> Nil, stores |-> 1,
          hashes |-> HSet(redisHashes,
                          StoredHash(ragIndexer,
                                     IndexFileDocument(filePath, file.data)))]

\* r.IndexFile(ctx, filePath) on the indexer most recently built.
IndexFile(filePath, file, storeFails) ==
    LET r == IndexFileResult(filePath, file, storeFails)
        kb == ragIndexer.filename
    IN  /\ ragIndexer # Nil
        /\ redisHashes' = r.hashes
        /\ lastIndexed' = IF r.err = Nil
                          THEN [lastIndexed EXCEPT ![kb] = <<file.data>>]
                          ELSE lastIndexed
        /\ ragRet' = [op |-> "IndexFile", arg |-> filePath, kb |-> kb,
                      err |-> r.err, stores |-> r.stores,
                      readFailed |-> file.err # Nil,
                      storeFailed |-> file.err = Nil /\ storeFails,
                      replaced |-> r.err = Nil /\ lastIndexed[kb] # <<>>
                                   /\ lastIndexed[kb] # <<file.data>>]
        /\ UNCHANGED <<redisIndexes, ragIndexer, ragQuery,
                       userVars, promptVars, mapVars>>

\* A mutant of DeleteIndexErr: the store's error is not kept as the cause.
DeleteIndexErrNoCause(err) ==
    IF err # Nil THEN Errorf("failed to delete redis index", Nil) ELSE Nil

\* What DeleteIndex returns for what redis.DeleteRedisIndex returned.
DeleteIndexErr(err) ==
    IF err # Nil THEN Errorf("failed to delete redis index", err) ELSE Nil

\* DeleteIndex(ctx, filename).  Whether the store drops the index's hashes
\* along with the index is the store's choice (dropDocs).
DeleteIndex(filename, storeDown, dropDocs) ==
    LET e == DeleteRedisIndexErr(redisIndexes, filename, storeDown)
    IN  /\ redisIndexes' = IF e = Nil
                           THEN {x \in redisIndexes :
                                   x.name # GenerateIndexName(filename)}
                           ELSE redisIndexes
        /\ redisHashes' = IF e = Nil /\ dropDocs
                          THEN redisHashes \ Covered(redisIndexes, redisHashes,
                                                GenerateIndexName(filename))
                          ELSE redisHashes
        /\ ragRet' = [op |-> "DeleteIndex", arg |-> filename,
                      err |-> DeleteIndexErr(e), storeDown |-> storeDown]
        /\ UNCHANGED <<ragIndexer, ragQuery, lastIndexed,
                       userVars, promptVars, mapVars>>


(***************************************************************************)
(*                 package rag: retrieval                                  *)
(***************************************************************************)

\* os.ReadDir(userDir): only uploads/amy exists, and files are its entries
\* (sorted by name) at the time of the call.
ReadDir(userDir, files) ==
    IF userDir = <<"uploads/">> \o <<"amy">>
    THEN [files |-> files, err |-> Nil]
    ELSE [files |-> <<>>, err |-> ErrNoFile]

\* A mutant of FirstFileName: the loop has no break, so the last
\* non-directory entry wins.
LastFileName(files) ==
    LET regular == {i \in DOMAIN files : ~files[i].isDir}
    IN  IF regular = {} THEN <<>>
        ELSE files[CHOOSE i \in regular : \A j \in regular : j <= i].name

\* The loop of NewRAGQuery: the name of the first entry that is no
\* directory, "" when there is none.
FirstFileName(files) ==
    LET regular == {i \in DOMAIN files : ~files[i].isDir}
    IN  IF regular = {} THEN <<>>
        ELSE files[CHOOSE i \in regular : \A j \in regular : i <= j].name

\* NewRAGQuery's result, failAt being the collaborator that fails ("none":
\* neither does): the RAGQuery and the error returned, and the entries read.
NewRAGQueryResult(username, files, failAt) ==
    LET userDir == <<"uploads/">> \o username
        dir == ReadDir(userDir, files)
        filename == FirstFileName(dir.files)
    IN  IF failAt = "embedder"
        THEN [query |-> Nil, files |-> <<>>,
              err |-> Errorf("failed to create embedder", ErrEmbedder)]
        ELSE IF dir.err # Nil \/ Len(dir.files) = 0
        THEN [query |-> Nil, files |-> dir.files,
              err |-> [error |-> "no uploaded file found for user",
                       user |-> username]]
        ELSE IF filename = <<>>
        THEN [query |-> Nil, files |-> dir.files,
              err |-> [error |-> "no valid file found for user",
                       user |-> username]]
        ELSE IF failAt = "retriever"
        THEN [query |-> Nil, files |-> dir.files,
              err |-> Errorf("failed to create retriever", ErrRetrieverConfig)]
        ELSE [query |-> [Index |-> GenerateIndexName(filename),
                         ReturnFields |-> {"content", "metadata", "distance"},
                         TopK |-> TopK, VectorField |-> <<"vector">>],
              files |-> dir.files,
              err |-> Nil]

\* NewRAGQuery(ctx, username), files being the entries of the user's upload
\* directory.
NewRAGQuery(username, files, failAt) ==
    LET r == NewRAGQueryResult(username, files, failAt)
    IN  /\ ragQuery' = IF r.err = Nil THEN r.query ELSE ragQuery
        /\ ragRet' = [op |-> "NewRAGQuery", arg |-> username,
                      ret |-> r.query, err |-> r.err, files |-> r.files,
                      readDir |-> failAt # "embedder",
                      dirErr |-> ReadDir(<<"uploads/">> \o username, files).err]
        /\ UNCHANGED <<redisIndexes, redisHashes, ragIndexer,
                       lastIndexed, userVars, promptVars, mapVars>>

\* A mutant of DocumentConverter: the id is cut down to the part of the key
\* after its last separator.
DocumentConverterShortId(hit, distance) ==
    [ID |-> <<hit.key[Len(hit.key)]>>, Content |-> hit.content,
     MetaData |-> [metadata |-> hit.metadata, distance |-> distance]]

\* The DocumentConverter of NewRAGQuery: the hit's id is the document's id,
\* its content field the content, every other returned field metadata.
DocumentConverter(hit, distance) ==
    [ID |-> hit.key, Content |-> hit.content,
     MetaData |-> [metadata |-> hit.metadata, distance |-> distance]]

\* The retriever: embeds the query, searches the index for the TopK nearest
\* hashes and converts each hit.
Retrieve(retriever, query) ==
    LET vec == Embed(query)
        hits == Ranked(Covered(redisIndexes, redisHashes, retriever.Index),
                       vec, retriever.TopK)
    IN  [i \in 1..Len(hits) |->
            DocumentConverter(hits[i], Distance(hits[i].vector, vec))]

\* r.RetrieveDocuments(ctx, query) on the RAGQuery most recently built; the
\* search fails when the store is down or does not know the index.
RetrieveDocuments(query, storeDown) ==
    LET e == IF storeDown THEN ErrStore
             ELSE IF ~IndexExists(redisIndexes, ragQuery.Index)
                  THEN ErrUnknownIndex
                  ELSE Nil
    IN  /\ ragQuery # Nil
        /\ ragRet' = [op |-> "RetrieveDocuments", arg |-> query,
                      index |-> ragQuery.Index,
                      docs |-> IF e = Nil THEN Retrieve(ragQuery, query)
                               ELSE Nil,
                      err |-> IF e = Nil THEN Nil
                              ELSE Errorf("failed to retrieve documents", e)]
        /\ UNCHANGED <<redisIndexes, redisHashes, ragIndexer,
                       ragQuery, lastIndexed, userVars, promptVars, mapVars>>


(***************************************************************************)
(*                 package rag: BuildRAGPrompt                             *)
(***************************************************************************)

\* The literals of BuildRAGPrompt, one symbol each (in English here).
\* "[<document> " and "]: " around the %d of line 260, and its "\n\n".
LabelOpen == <<"[Document ">>
LabelClose == <<"]: ">>
BlankLine == <<"\n\n">>
\* Lines 263-266, up to the first %s.
PromptHeader ==
    <<"Answer the user's question from the reference documents below. If they hold no relevant information, say that none could be found.\n\nReference documents:\n">>
\* Lines 266-268, between the two %s.
PromptQuestion == <<"\n\nUser question: ">>
\* Lines 268-270, after the second %s.
PromptFooter == <<"\n\nGive an accurate and complete answer: ">>

Digits == <<"0", "1", "2", "3", "4", "5", "6", "7", "8", "9">>

\* %d of a number that is not negative.
RECURSIVE Itoa(_)
Itoa(n) ==
    IF n < 10 THEN <<Digits[n + 1]>>
    ELSE Itoa(n \div 10) \o <<Digits[(n % 10) + 1]>>

\* A mutant of ContextText: the documents are numbered from 0.
RECURSIVE ContextTextFromZero(_, _)
ContextTextFromZero(docs, n) ==
    IF n = 0 THEN <<>>
    ELSE ContextTextFromZero(docs, n - 1)
         \o LabelOpen \o Itoa(n - 1) \o LabelClose
         \o docs[n].Content \o BlankLine

\* contextText after n rounds of the loop: round i (from 0) appends
\* Sprintf("[<document> %d]: %s\n\n", i+1, doc.Content).
RECURSIVE ContextText(_, _)
ContextText(docs, n) ==
    IF n = 0 THEN <<>>
    ELSE ContextText(docs, n - 1)
         \o LabelOpen \o Itoa((n - 1) + 1) \o LabelClose
         \o docs[n].Content \o BlankLine

\* A mutant of BuildRAGPrompt: no early return for an empty document list.
BuildRAGPromptAlwaysFramed(query, docs) ==
    PromptHeader \o ContextText(docs, Len(docs)) \o PromptQuestion \o query
    \o PromptFooter

\* BuildRAGPrompt(query, docs).
BuildRAGPrompt(query, docs) ==
    IF Len(docs) = 0 THEN query
    ELSE PromptHeader \o ContextText(docs, Len(docs)) \o PromptQuestion
         \o query \o PromptFooter

\* All strings over the alphabet of at most n characters.
Texts(n) == UNION {[1..k -> {Alphabet[i] : i \in DOMAIN Alphabet}] : k \in 0..n}

\* All document lists of at most n documents.
DocLists(n) ==
    UNION {[1..k -> [ID : {<<"doc_1">>}, Content : Texts(MaxLen)]] : k \in 0..n}

BuildRAGPromptStep ==
    /\ ~promptOut.done
    /\ promptOut' = [done |-> TRUE,
                     prompt |-> BuildRAGPrompt(promptIn.query, promptIn.docs)]
    /\ UNCHANGED <<promptIn, userVars, ragVars, mapVars>>

(***************************************************************************)
(*                 The Document Mapper on its own                          *)
(***************************************************************************)

DocIds == {<<"doc_1">>, <<"7">>}

\* MetaData: no "source", a string "source", or a "source" of another type.
MetaDatas ==
    {<<>>}
    \cup {[k \in {"source"} |-> [type |-> "string", val |-> p]] :
            p \in FilePaths \cup {<<>>}}
    \cup {[k \in {"source"} |-> [type |-> "int", val |-> <<"7">>]]}

DocumentToHashesStep ==
    /\ ~mapOut.done
    /\ mapOut' = [done |-> TRUE,
                  hashes |-> DocumentToHashes(mapIn.filename, mapIn.doc)]
    /\ UNCHANGED <<mapIn, userVars, ragVars, promptVars>>

(***************************************************************************)
(*                 Specifications                                          *)
(***************************************************************************)

Entries == [name : FileNames, isDir : BOOLEAN]

Rank(name) == CHOOSE i \in DOMAIN DirNames : DirNames[i] = name

\* The directory listings: entries with names of their own, sorted by name.
Listings ==
    {l \in UNION {[1..k -> Entries] : k \in 0..Len(DirNames)} :
        \A i, j \in DOMAIN l : i < j => Rank(l[i].name) < Rank(l[j].name)}

NewRAGIndexerStep ==
    \E filename \in FileNames, embeddingModel \in EmbeddingModels,
       failAt \in {"none", "embedder", "redis index", "indexer"} :
        NewRAGIndexer(filename, embeddingModel, failAt)

\* os.ReadFile: the file's bytes, or an error.
ReadFileResults ==
    {[data |-> c, err |-> Nil] : c \in Contents}
    \cup {[data |-> <<>>, err |-> ErrNoFile]}

IndexFileStep ==
    \E filePath \in FilePaths, file \in ReadFileResults, storeFails \in BOOLEAN :
        IndexFile(filePath, file, storeFails)

DeleteIndexStep ==
    \E filename \in FileNames, storeDown \in BOOLEAN, dropDocs \in BOOLEAN :
        DeleteIndex(filename, storeDown, dropDocs)

\* The entries of uploads/<username>: bob has no upload directory.
DirOf(username) == IF username = <<"amy">> THEN Listings ELSE {<<>>}

NewRAGQueryStep ==
    \E username \in Usernames, failAt \in {"none", "embedder", "retriever"} :
        \E files \in DirOf(username) :
            NewRAGQuery(username, files, failAt)

RetrieveDocumentsStep ==
    \E query \in Queries, storeDown \in BOOLEAN :
        RetrieveDocuments(query, storeDown)

NextUser == RegisterStep \/ IsExistUserStep
NextRag ==
    \/ NewRAGIndexerStep
    \/ IndexFileStep
    \/ DeleteIndexStep
    \/ NewRAGQueryStep
    \/ RetrieveDocumentsStep
NextPrompt == BuildRAGPromptStep
NextMapper == DocumentToHashesStep

\* The user DAO on an empty users table.
InitUser ==
    /\ users = <<>>
    /\ registered = <<>>
    /\ userRet = NoCall
    /\ redisIndexes = {}
    /\ redisHashes = {}
    /\ ragIndexer = Nil
    /\ ragQuery = Nil
    /\ lastIndexed = [f \in FileNames |-> <<>>]
    /\ ragRet = NoCall
    /\ promptIn = <<>>
    /\ promptOut = [done |-> TRUE]
    /\ mapIn = <<>>
    /\ mapOut = [done |-> TRUE]

\* Package rag on an empty store.
InitRag ==
    /\ users = <<>>
    /\ registered = <<>>
    /\ userRet = NoCall
    /\ redisIndexes = {}
    /\ redisHashes = {}
    /\ ragIndexer = Nil
    /\ ragQuery = Nil
    /\ lastIndexed = [f \in FileNames |-> <<>>]
    /\ ragRet = NoCall
    /\ promptIn = <<>>
    /\ promptOut = [done |-> TRUE]
    /\ mapIn = <<>>
    /\ mapOut = [done |-> TRUE]

\* BuildRAGPrompt on every query and document list within the bounds.
InitPrompt ==
    /\ users = <<>>
    /\ registered = <<>>
    /\ userRet = NoCall
    /\ redisIndexes = {}
    /\ redisHashes = {}
    /\ ragIndexer = Nil
    /\ ragQuery = Nil
    /\ lastIndexed = [f \in FileNames |-> <<>>]
    /\ ragRet = NoCall
    /\ promptIn \in [query : Texts(MaxLen), docs : DocLists(MaxDocs)]
    /\ promptOut = [done |-> FALSE]
    /\ mapIn = <<>>
    /\ mapOut = [done |-> TRUE]

\* DocumentToHashes on every knowledge base and document within the bounds.
InitMapper ==
    /\ users = <<>>
    /\ registered = <<>>
    /\ userRet = NoCall
    /\ redisIndexes = {}
    /\ redisHashes = {}
    /\ ragIndexer = Nil
    /\ ragQuery = Nil
    /\ lastIndexed = [f \in FileNames |-> <<>>]
    /\ ragRet = NoCall
    /\ promptIn = <<>>
    /\ promptOut = [done |-> TRUE]
    /\ mapIn \in [filename : FileNames,
                  doc : [ID : DocIds, Content : Texts(MaxLen),
                         MetaData : MetaDatas]]
    /\ mapOut = [done |-> FALSE]

SpecUser == InitUser /\ [][NextUser]_vars
SpecRag == InitRag /\ [][NextRag]_vars
SpecPrompt == InitPrompt /\ [][NextPrompt]_vars
SpecMapper == InitMapper /\ [][NextMapper]_vars


(***************************************************************************)
(* Claims about package rag.                                               *)
(***************************************************************************)

\* The key under which the store holds the one document of a knowledge base:
\* the indexer's KeyPrefix, then the record's key "{kb}:doc_1".
StoreKey(f) == GenerateIndexNamePrefix(f) \o f \o <<":">> \o <<"doc_1">>

Retrieved == ragRet.op = "RetrieveDocuments" /\ ragRet.err = Nil

\* C2 (as amended): when a knowledge base's file has been indexed and a
\* RAGQuery bound to that knowledge base's index (NewRAGQuery binds to the
\* first non-directory entry of the owner's directory only) retrieves with
\* any query, a query nearest to the document included, then among the at
\* most TopK results is a document with the indexed content whose id is the
\* store's key for it, KeyPrefix + "{kb}:doc_1": the key ends in the
\* document's id "doc_1" and is not that id.
C2_RoundTripReturnsStoreKey ==
    Retrieved =>
        /\ Len(ragRet.docs) <= TopK
        /\ \A f \in FileNames :
             ragRet.index = GenerateIndexName(f) =>
               \A h \in Records(redisHashes, f) :
                 \E i \in DOMAIN ragRet.docs :
                    /\ ragRet.docs[i].ID = h.key
                    /\ ragRet.docs[i].ID = StoreKey(f)
                    /\ ragRet.docs[i].ID # <<"doc_1">>
                    /\ ragRet.docs[i].Content = h.content
                    /\ <<ragRet.docs[i].Content>> = lastIndexed[f]

\* C2 witness: a retrieval returns the indexed document for a query whose
\* embedding is at distance 0 from the document's.
C2_Witness ==
    /\ Retrieved
    /\ Len(ragRet.docs) = 1
    /\ ragRet.docs[1].MetaData.distance = 0
    /\ <<ragRet.docs[1].Content>> \in {lastIndexed[f] : f \in FileNames}

\* C2 as stated: retrieving from an indexed knowledge base returns the
\* document's id, "doc_1", among the results.
C2_Original ==
    Retrieved =>
        \A f \in FileNames :
            (ragRet.index = GenerateIndexName(f) /\ Records(redisHashes, f) # {})
            => \E i \in DOMAIN ragRet.docs : ragRet.docs[i].ID = <<"doc_1">>

StageError(stage) ==
    IF stage = "embedder" THEN "failed to create embedder"
    ELSE IF stage = "redis index" THEN "failed to init redis index"
    ELSE "failed to create indexer"

\* The stages of NewRAGIndexer up to and including one of them.
StagesUpTo(stage) ==
    SubSeq(IndexerStages, 1,
           CHOOSE k \in DOMAIN IndexerStages : IndexerStages[k] = stage)

\* What a step of NewRAGIndexer or IndexFile returns: on the first failing
\* stage nil and that stage's error, with no later stage run; IndexFile
\* calls Store at most once, and not at all when the read fails.
StageTagged ==
    /\ (ragRet'.op = "NewRAGIndexer" /\ ragRet'.failAt = "none")
       => /\ ragRet'.err = Nil
          /\ ragRet'.ret # Nil
          /\ ragRet'.ran = IndexerStages
    /\ (ragRet'.op = "NewRAGIndexer" /\ ragRet'.failAt # "none")
       => /\ ragRet'.ret = Nil
          /\ ragRet'.err # Nil
          /\ ragRet'.err.error = StageError(ragRet'.failAt)
          /\ ragRet'.ran = StagesUpTo(ragRet'.failAt)
          /\ ragIndexer' = ragIndexer
    /\ (ragRet'.op = "IndexFile" /\ ragRet'.readFailed)
       => /\ ragRet'.err # Nil
          /\ ragRet'.err.error = "failed to read file"
          /\ ragRet'.stores = 0
    /\ (ragRet'.op = "IndexFile" /\ ragRet'.storeFailed)
       => /\ ragRet'.err # Nil
          /\ ragRet'.err.error = "failed to store document"
          /\ ragRet'.stores = 1
    /\ (ragRet'.op = "IndexFile" /\ ~ragRet'.readFailed /\ ~ragRet'.storeFailed)
       => ragRet'.err = Nil /\ ragRet'.stores = 1

StoreUnchanged == redisIndexes' = redisIndexes /\ redisHashes' = redisHashes

\* C8 (as amended): each failure is returned with its stage and stops the
\* operation there.  A failed IndexFile leaves the store as it was, and so
\* does a NewRAGIndexer that fails at the embedder or at the index creation;
\* a NewRAGIndexer that fails at the indexer creation leaves behind the
\* index it has just created for the knowledge base (nothing rolls it back).
C8_FailureAbortsWithStage ==
    [][/\ StageTagged
       /\ (ragRet'.op = "IndexFile" /\ ragRet'.err # Nil) => StoreUnchanged
       /\ (ragRet'.op = "NewRAGIndexer"
           /\ ragRet'.failAt \in {"embedder", "redis index"})
          => StoreUnchanged
       /\ (ragRet'.op = "NewRAGIndexer" /\ ragRet'.failAt = "indexer")
          => /\ redisHashes' = redisHashes
             /\ redisIndexes'
                  = InitRedisIndex(redisIndexes, ragRet'.arg, RagDimension)
             /\ IndexExists(redisIndexes', GenerateIndexName(ragRet'.arg))]_vars

\* C8 witness: NewRAGIndexer has failed at the indexer creation, returned
\* nil and that stage's error, and the knowledge base's index, which no
\* earlier call had created, is in the store.
C8_Witness ==
    /\ ragRet.op = "NewRAGIndexer"
    /\ ragRet.failAt = "indexer"
    /\ ragRet.ret = Nil
    /\ ragRet.err.error = "failed to create indexer"
    /\ redisIndexes = InitRedisIndex({}, ragRet.arg, RagDimension)
    /\ ragIndexer = Nil

\* C8 as stated: ... and no failed NewRAGIndexer or IndexFile leaves a
\* partial-success state behind: the store is as it was before the call.
C8_Original ==
    [][/\ StageTagged
       /\ (ragRet'.op \in {"NewRAGIndexer", "IndexFile"} /\ ragRet'.err # Nil)
          => StoreUnchanged]_vars

\* C9: NewRAGQuery binds the retriever to the index named after the first
\* entry, in listing order, that is no directory; and it returns an error
\* and no RAGQuery when the directory cannot be read, is empty, or holds
\* directories only.
C9_FirstNonDirectoryEntry ==
    ragRet.op = "NewRAGQuery" =>
        /\ ragRet.ret = Nil <=> ragRet.err # Nil
        /\ ragRet.ret # Nil
           => \E i \in DOMAIN ragRet.files :
                /\ ~ragRet.files[i].isDir
                /\ \A j \in 1..(i - 1) : ragRet.files[j].isDir
                /\ ragRet.ret.Index = GenerateIndexName(ragRet.files[i].name)
        /\ (\/ ragRet.dirErr # Nil
            \/ ragRet.files = <<>>
            \/ \A i \in DOMAIN ragRet.files : ragRet.files[i].isDir)
           => ragRet.ret = Nil /\ ragRet.err # Nil

\* C9 witness: the directory lists a directory and then a file, and the
\* RAGQuery returned is bound to the file's index.
C9_Witness ==
    /\ ragRet.op = "NewRAGQuery"
    /\ Len(ragRet.files) = 2
    /\ ragRet.files[1].isDir
    /\ ~ragRet.files[2].isDir
    /\ ragRet.ret # Nil
    /\ ragRet.ret.Index = GenerateIndexName(ragRet.files[2].name)

\* C10: every knowledge base holds at most one record, the one whose key is
\* "{kb}:doc_1" (under the indexer's key prefix), and its content is that of
\* the most recent successful IndexFile on that knowledge base.
C10_OneRecordPerKnowledgeBase ==
    \A f \in FileNames :
        /\ Cardinality(Records(redisHashes, f)) <= 1
        /\ \A h \in Records(redisHashes, f) :
             /\ h.key = StoreKey(f)
             /\ h.key = GenerateIndexNamePrefix(f)
                          \o DocumentToHashes(f, [ID |-> <<"doc_1">>,
                                                  Content |-> h.content,
                                                  MetaData |-> <<>>]).Key
             /\ <<h.content>> = lastIndexed[f]

\* C10 witness: a second IndexFile on a knowledge base has stored another
\* content, and the knowledge base holds one record.
C10_Witness ==
    /\ ragRet.op = "IndexFile"
    /\ ragRet.replaced
    /\ Cardinality(Records(redisHashes, ragRet.kb)) = 1

(***************************************************************************)
(* Claims about the Document Mapper.                                       *)
(***************************************************************************)

HasStringSource(doc) ==
    "source" \in DOMAIN doc.MetaData /\ doc.MetaData["source"].type = "string"

\* C5: DocumentToHashes of knowledge base kb returns the key "{kb}:{D.id}",
\* a content field with D.content and the embed target "vector", and a
\* metadata field, with no embed target, that is the document's source
\* label verbatim ("" when the document carries no string label).
C5_MapperRecord ==
    mapOut.done =>
        LET d == mapIn.doc
            h == mapOut.hashes
        IN  /\ Len(h.Key) = Len(mapIn.filename) + 1 + Len(d.ID)
            /\ SubSeq(h.Key, 1, Len(mapIn.filename)) = mapIn.filename
            /\ h.Key[Len(mapIn.filename) + 1] = ":"
            /\ SubSeq(h.Key, Len(mapIn.filename) + 2, Len(h.Key)) = d.ID
            /\ DOMAIN h.Field2Value = {"content", "metadata"}
            /\ h.Field2Value.content.Value = d.Content
            /\ h.Field2Value.content.EmbedKey = <<"vector">>
            /\ h.Field2Value.metadata.EmbedKey = <<>>
            /\ HasStringSource(d)
               => h.Field2Value.metadata.Value = d.MetaData["source"].val
            /\ ~HasStringSource(d) => h.Field2Value.metadata.Value = <<>>

\* C5 witness: a document with a source label and an id other than
\* IndexFile's has been mapped.
C5_Witness ==
    /\ mapOut.done
    /\ HasStringSource(mapIn.doc)
    /\ mapIn.doc.MetaData["source"].val # <<>>
    /\ mapIn.doc.ID # <<"doc_1">>
    /\ mapIn.doc.Content # <<>>
    /\ mapOut.hashes.Field2Value.metadata.Value
         = mapIn.doc.MetaData["source"].val

(***************************************************************************)
(* Claims about BuildRAGPrompt.                                            *)
(***************************************************************************)

\* The length of document i's segment of the prompt.
SegLen(docs, i) ==
    Len(LabelOpen) + Len(Itoa(i)) + Len(LabelClose) + Len(docs[i].Content)
    + Len(BlankLine)

\* Where document i's segment starts (i = Len(docs) + 1: where they end).
RECURSIVE SegStart(_, _)
SegStart(docs, i) ==
    IF i = 1 THEN Len(PromptHeader) + 1
    ELSE SegStart(docs, i - 1) + SegLen(docs, i - 1)

\* How often s occurs in t.
Occurrences(s, t) ==
    Cardinality({k \in 1..(Len(t) + 1) :
                   /\ k + Len(s) - 1 <= Len(t)
                   /\ SubSeq(t, k, k + Len(s) - 1) = s})

Framed == promptOut.done /\ Len(promptIn.docs) > 0

\* C3 (as amended): for a non-empty document list the prompt is the fixed
\* header, then one segment per document in input order, the N-th being
\* the label numbered N (from 1), its content and a blank line, then the
\* question label and the query verbatim, then the fixed closing
\* instruction, which, not the query, ends the prompt.  (A document's text
\* can occur more than once: in a duplicate document, in a longer one, or
\* in the query.)
C3_PromptLayout ==
    Framed =>
        LET q == promptIn.query
            docs == promptIn.docs
            out == promptOut.prompt
            rest == SegStart(docs, Len(docs) + 1)
        IN  /\ SubSeq(out, 1, Len(PromptHeader)) = PromptHeader
            /\ \A i \in DOMAIN docs :
                 SubSeq(out, SegStart(docs, i),
                        SegStart(docs, i) + SegLen(docs, i) - 1)
                   = LabelOpen \o Itoa(i) \o LabelClose \o docs[i].Content
                     \o BlankLine
            /\ SubSeq(out, rest, rest + Len(PromptQuestion) - 1)
                 = PromptQuestion
            /\ SubSeq(out, rest + Len(PromptQuestion),
                      rest + Len(PromptQuestion) + Len(q) - 1) = q
            /\ SubSeq(out, rest + Len(PromptQuestion) + Len(q), Len(out))
                 = PromptFooter
            /\ Occurrences(PromptQuestion \o q \o PromptFooter, out) = 1

\* C3 witness: a prompt has been built from two documents of different,
\* non-empty content and a non-empty query.
C3_Witness ==
    /\ Framed
    /\ Len(promptIn.docs) = 2
    /\ promptIn.docs[1].Content # <<>>
    /\ promptIn.docs[2].Content # <<>>
    /\ promptIn.docs[1].Content # promptIn.docs[2].Content
    /\ promptIn.query # <<>>

NonEmptyTexts ==
    /\ promptIn.query # <<>>
    /\ \A i \in DOMAIN promptIn.docs : promptIn.docs[i].Content # <<>>

\* C3 as stated (for texts that are not empty): the prompt contains every
\* document's content exactly once, numbered in input order from 1, and
\* contains the query verbatim at the end.
C3_Original ==
    (Framed /\ NonEmptyTexts) =>
        LET q == promptIn.query
            docs == promptIn.docs
            out == promptOut.prompt
        IN  /\ \A i \in DOMAIN docs :
                 /\ Occurrences(docs[i].Content, out) = 1
                 /\ Occurrences(LabelOpen \o Itoa(i) \o LabelClose
                                \o docs[i].Content, out) = 1
            /\ Len(q) <= Len(out)
            /\ SubSeq(out, Len(out) - Len(q) + 1, Len(out)) = q

\* C4: with an empty (or nil) document list BuildRAGPrompt returns the
\* query unchanged: no header, no question label, no closing instruction.
C4_EmptyDocsReturnQuery ==
    (promptOut.done /\ Len(promptIn.docs) = 0)
    => /\ promptOut.prompt = promptIn.query
       /\ Occurrences(PromptHeader, promptOut.prompt) = 0
       /\ Occurrences(PromptFooter, promptOut.prompt) = 0

\* C4 witness: a non-empty query has been passed with no document.
C4_Witness ==
    /\ promptOut.done
    /\ promptIn.docs = <<>>
    /\ promptIn.query # <<>>
    /\ promptOut.prompt = promptIn.query

=============================================================================
